---- MODULE Spec2Model ----
(***************************************************************************)
(* Model of the OneView client fragment (server-profile submission,        *)
(* CreateProfileFromTemplate, DeleteProfile) and of the example programs   *)
(* (scope.go, fc_config.go, appliance_ssh_access.go, the scope/ethernet    *)
(* demo).  The appliance is the environment: every REST/SDK call returns a *)
(* nondeterministically chosen outcome.                                    *)
(***************************************************************************)
EXTENDS Integers, Sequences, FiniteSets, TLC

\* ------------------------------------------------------------------ bounds
\* polls one Wait performs before it gives up (the handle's timeout)
Timeout == 2
\* polling errors one Wait tolerates before it reports a fatal task failure
MaxRetries == 1
\* Wait calls a direct caller of Submit* makes on the returned handle
MaxWaits == 3

VARIABLES
    prog,        \* entry point being run
    pc,          \* position inside the entry point
    profile,     \* ServerProfile in hand (looked up, or cloned from the template)
    server,      \* ServerHardware local of DeleteProfile (only Name is read)
    t,           \* the task handle returned by Submit*
    err,         \* the caller's err before Wait: set by the lookup, then by Submit*
    waitErr,     \* error returned by the last Wait
    result,      \* return value of the entry point: "none" until it returns
    rest,        \* requests issued to the appliance so far, in order
    resp,        \* outcome of the submission request (the appliance's answer)
    subReqs,     \* requests issued by the last Submit* call
    currenttime, \* polls made by the Wait in progress
    retries,     \* polling errors seen by the Wait in progress
    entry,       \* the Wait in progress: done flag and request count when it was called
    waitLog,     \* one entry per returned Wait: done flag at entry, polls, result
    srvTask,     \* state of the task on the appliance
    onAppliance, \* the profile exists on the appliance
    ip,          \* example programs: index of the next statement
    goVars,      \* example programs: the Go error variables
    printed,     \* example programs: calls whose error was printed
    dropped,     \* example programs: calls whose error was never reported
    issued       \* example programs: SDK calls issued, in order, with their outcome

libVars == <<profile, server, t, err, waitErr, result, rest, resp, subReqs,
             currenttime, retries, entry, waitLog, srvTask, onAppliance>>
exVars == <<ip, goVars, printed, dropped, issued>>
vars == <<prog, pc, libVars, exVars>>

\* ------------------------------------------------------------ data model
ProfileURI == "/rest/server-profiles/1"
HardwareURI == "/rest/server-hardware/1"
TaskURIs == {"/rest/tasks/1", "/rest/tasks/2"}

EmptyProfile == [Name |-> "", URI |-> "", ServerHardwareURI |-> ""]
Profiles == [Name : {"", "p"}, URI : {"", ProfileURI},
             ServerHardwareURI : {"", HardwareURI}]

EmptyList == [Total |-> 0, Members |-> <<>>]

\* Clone copies Name (and the fields not modelled) and leaves URI and
\* ServerHardwareURI at their zero value.
Clone(s) == [Name |-> s.Name, URI |-> "", ServerHardwareURI |-> ""]

\* A fresh handle: NewProfileTask followed by ResetTask.
NewProfileTask == [TaskIsDone |-> FALSE, URI |-> "", TaskState |-> ""]
ResetTask(h) == [h EXCEPT !.URI = "", !.TaskState = ""]

\* json.Unmarshal of the appliance's answer into the handle.
Unmarshal(h, r) == [h EXCEPT !.URI = r.uri, !.TaskState = "Running"]

\* Outcomes of one submission request.  err: what RestAPICall returns;
\* json: the body parses; accepted: the appliance started the task (a lost
\* or garbled answer does not tell).
Responses ==
    {r \in [err : {"nil", "ErrRest"}, json : BOOLEAN, accepted : BOOLEAN,
            uri : TaskURIs] :
        /\ (r.err # "nil" => ~r.json)
        /\ (r.err = "nil" /\ r.json => r.accepted)
        /\ (~(r.err = "nil" /\ r.json) => r.uri = "/rest/tasks/1")}

NoResponse == [err |-> "nil", json |-> FALSE, accepted |-> FALSE, uri |-> ""]

\* ------------------------------------------------------- GetProfileByName
\* Outcomes of GetProfiles: RestAPICall fails (zero list), the body does not
\* parse (the list may be partly filled), or the list is returned.
GetProfilesOutcomes(exists) ==
    {[err |-> "ErrRest", list |-> EmptyList]}
    \cup {[err |-> "ErrJSON", list |-> l] :
            l \in {EmptyList, [Total |-> 1, Members |-> <<>>]}}
    \cup IF exists
         THEN {[err |-> "nil", list |-> [Total |-> 1, Members |-> <<p>>]] :
                 p \in Profiles}
         ELSE {[err |-> "nil", list |-> EmptyList]}

GetProfiles(o) == [profiles |-> o.list, err |-> o.err]

GetProfileByName(o) ==
    LET g == GetProfiles(o) IN
    IF g.profiles.Total > 0
    THEN IF Len(g.profiles.Members) = 0
         THEN [profile |-> EmptyProfile, err |-> g.err, panic |-> TRUE]
         ELSE [profile |-> g.profiles.Members[1], err |-> g.err, panic |-> FALSE]
    ELSE [profile |-> EmptyProfile, err |-> g.err, panic |-> FALSE]

\* ------------------------------------------------------------- Submit*
Post == [m |-> "POST", uri |-> "/rest/server-profiles"]
Delete(u) == [m |-> "DELETE", uri |-> u]

\* SubmitNewProfile with a retry of a failed request.
SubmitNewProfile_Retry(p, r) ==
    LET t0 == ResetTask(NewProfileTask) IN
    IF r.err # "nil"
    THEN [t |-> [t0 EXCEPT !.TaskIsDone = TRUE], err |-> r.err,
          reqs |-> <<Post, Post>>]
    ELSE IF ~r.json
    THEN [t |-> [t0 EXCEPT !.TaskIsDone = TRUE], err |-> "ErrJSON", reqs |-> <<Post>>]
    ELSE [t |-> Unmarshal(t0, r), err |-> "nil", reqs |-> <<Post>>]

\* SubmitNewProfile without line 205: a failed request leaves the flag unset.
SubmitNewProfile_NoDone(p, r) ==
    LET t0 == ResetTask(NewProfileTask) IN
    IF r.err # "nil"
    THEN [t |-> t0, err |-> r.err, reqs |-> <<Post>>]
    ELSE IF ~r.json
    THEN [t |-> [t0 EXCEPT !.TaskIsDone = TRUE], err |-> "ErrJSON", reqs |-> <<Post>>]
    ELSE [t |-> Unmarshal(t0, r), err |-> "nil", reqs |-> <<Post>>]

SubmitNewProfile(p, r) ==
    LET t0 == ResetTask(NewProfileTask) IN
    IF r.err # "nil"
    THEN [t |-> [t0 EXCEPT !.TaskIsDone = TRUE], err |-> r.err, reqs |-> <<Post>>]
    ELSE IF ~r.json
    THEN [t |-> [t0 EXCEPT !.TaskIsDone = TRUE], err |-> "ErrJSON", reqs |-> <<Post>>]
    ELSE [t |-> Unmarshal(t0, r), err |-> "nil", reqs |-> <<Post>>]

\* SubmitDeleteProfile that waits for the task itself: it polls once and
\* hands back a finished handle.
SubmitDeleteProfile_Blocking(p, r) ==
    LET t0 == ResetTask(NewProfileTask) IN
    IF p.URI = ""
    THEN [t |-> [t0 EXCEPT !.TaskIsDone = TRUE], err |-> "nil", reqs |-> <<>>]
    ELSE IF r.err # "nil"
    THEN [t |-> [t0 EXCEPT !.TaskIsDone = TRUE], err |-> r.err,
          reqs |-> <<Delete(p.URI)>>]
    ELSE IF ~r.json
    THEN [t |-> [t0 EXCEPT !.TaskIsDone = TRUE], err |-> "ErrJSON",
          reqs |-> <<Delete(p.URI)>>]
    ELSE [t |-> [Unmarshal(t0, r) EXCEPT !.TaskIsDone = TRUE], err |-> "nil",
          reqs |-> <<Delete(p.URI), [m |-> "GET", uri |-> r.uri]>>]

SubmitDeleteProfile(p, r) ==
    LET t0 == ResetTask(NewProfileTask) IN
    IF p.URI = ""
    THEN [t |-> [t0 EXCEPT !.TaskIsDone = TRUE], err |-> "nil", reqs |-> <<>>]
    ELSE IF r.err # "nil"
    THEN [t |-> [t0 EXCEPT !.TaskIsDone = TRUE], err |-> r.err,
          reqs |-> <<Delete(p.URI)>>]
    ELSE IF ~r.json
    THEN [t |-> [t0 EXCEPT !.TaskIsDone = TRUE], err |-> "ErrJSON",
          reqs |-> <<Delete(p.URI)>>]
    ELSE [t |-> Unmarshal(t0, r), err |-> "nil", reqs |-> <<Delete(p.URI)>>]

\* What the appliance does with the requests of one submission.
TaskAfter(reqs, r) == IF Len(reqs) > 0 /\ r.accepted THEN "Running" ELSE "none"

\* What a Wait call finds when it is called on handle h.
EnterWait(h, reqs) == [done |-> h.TaskIsDone, nreq |-> Len(reqs)]

\* --------------------------------------------------------------- Init
LibraryPrograms == {"create", "delete", "submitNew", "submitDelete"}
ExamplePrograms == {"appliance_ssh_access", "scope", "fc_config", "scope_ethernet"}
Programs == LibraryPrograms \cup ExamplePrograms

GoVarNames == {"err", "er", "er_test", "scperr", "err1"}
NilVar == [val |-> "nil", from |-> 0, seen |-> TRUE]

Init ==
    /\ prog \in Programs
    /\ pc = IF prog \in ExamplePrograms THEN "run" ELSE "start"
    /\ profile = EmptyProfile
    /\ server = [Name |-> ""]
    /\ t = NewProfileTask
    /\ err = "nil"
    /\ waitErr = "nil"
    /\ result = "none"
    /\ rest = <<>>
    /\ resp = NoResponse
    /\ subReqs = <<>>
    /\ currenttime = 0
    /\ retries = 0
    /\ entry = [done |-> FALSE, nreq |-> 0]
    /\ waitLog = <<>>
    /\ srvTask = "none"
    /\ onAppliance \in (IF prog \in {"delete"} THEN BOOLEAN
                        ELSE {prog = "submitDelete"})
    /\ ip = 1
    /\ goVars = [v \in GoVarNames |-> NilVar]
    /\ printed = {}
    /\ dropped = {}
    /\ issued = <<>>

\* ------------------------------------------------ CreateProfileFromTemplate
\* lines 224-229: clone the template, name it, submit it.
CreateProfileFromTemplate_Submit ==
    /\ prog = "create" /\ pc = "start"
    /\ \E name \in {"p", "q"}, blade \in {"", HardwareURI}, r \in Responses :
         LET new_template == [Clone([EmptyProfile EXCEPT !.Name = "tmpl"])
                                EXCEPT !.ServerHardwareURI = blade, !.Name = name]
             s == SubmitNewProfile(new_template, r)
         IN /\ profile' = new_template
            /\ t' = s.t
            /\ err' = s.err
            /\ subReqs' = s.reqs
            /\ rest' = rest \o s.reqs
            /\ resp' = r
            /\ srvTask' = TaskAfter(s.reqs, r)
            /\ entry' = EnterWait(s.t, rest \o s.reqs)
    /\ pc' = "wait"
    /\ UNCHANGED <<prog, server, waitErr, result, currenttime, retries, waitLog,
                   onAppliance, exVars>>

\* lines 230-234: err was overwritten by Wait's result.
CreateProfileFromTemplate_Return ==
    /\ prog = "create" /\ pc = "waited"
    /\ result' = waitErr
    /\ pc' = "done"
    /\ UNCHANGED <<prog, profile, server, t, err, waitErr, rest, resp, subReqs,
                   currenttime, retries, entry, waitLog, srvTask, onAppliance,
                   exVars>>

\* ------------------------------------------------------------ DeleteProfile
GetProfilesReq == [m |-> "GET", uri |-> "/rest/server-profiles"]
GetHardwareReq == [m |-> "GET", uri |-> HardwareURI]
PowerOffReq(name) == [m |-> "POWEROFF", uri |-> name]

\* DeleteProfile without the test of the lookup's error (lines 281-283).
LookupBranch_IgnoreErr(p, e) ==
    IF p.Name # ""
    THEN (IF p.ServerHardwareURI # "" THEN "hw" ELSE "power")
    ELSE "return_nil"

\* lines 281-285, 312-315: what DeleteProfile does with the lookup's result.
LookupBranch(p, e) ==
    IF e # "nil" THEN "return_err"
    ELSE IF p.Name # ""
    THEN (IF p.ServerHardwareURI # "" THEN "hw" ELSE "power")
    ELSE "return_nil"

\* lines 279-285 and 312-315: look the profile up by name.
DeleteProfile_Lookup ==
    /\ prog = "delete" /\ pc = "start"
    /\ \E o \in GetProfilesOutcomes(onAppliance) :
         LET g == GetProfileByName(o)
             b == LookupBranch(g.profile, g.err)
         IN /\ profile' = g.profile
            /\ err' = g.err
            /\ rest' = Append(rest, GetProfilesReq)
            /\ IF g.panic
               THEN pc' = "panicked" /\ result' = "panic"
               ELSE CASE b = "return_err" -> pc' = "done" /\ result' = g.err
                      [] b = "return_nil" -> pc' = "done" /\ result' = "nil"
                      [] OTHER -> pc' = b /\ result' = result
    /\ UNCHANGED <<prog, server, t, waitErr, resp, subReqs, currenttime,
                   retries, entry, waitLog, srvTask, onAppliance, exVars>>

\* lines 286-295: fetch the server hardware; a failure is only logged.
DeleteProfile_GetServerHardware ==
    /\ prog = "delete" /\ pc = "hw"
    /\ \E name \in {"", "srv"}, e \in {"nil", "ErrRest"} :
         server' = [Name |-> name]
    /\ rest' = Append(rest, GetHardwareReq)
    /\ pc' = "power"
    /\ UNCHANGED <<prog, profile, t, err, waitErr, result, resp, subReqs,
                   currenttime, retries, entry, waitLog, srvTask, onAppliance,
                   exVars>>

\* DeleteProfile without the power-off (lines 299-301).
PowerOffStep_Skip(srv) == <<>>

\* lines 298-301: requests made by the power-off step.
PowerOffStep(srv) == IF srv.Name # "" THEN <<PowerOffReq(srv.Name)>> ELSE <<>>

DeleteProfile_PowerOff ==
    /\ prog = "delete" /\ pc = "power"
    /\ rest' = rest \o PowerOffStep(server)
    /\ pc' = "submit"
    /\ UNCHANGED <<prog, profile, server, t, err, waitErr, result, resp, subReqs,
                   currenttime, retries, entry, waitLog, srvTask, onAppliance,
                   exVars>>

\* line 304: submit the delete.
DeleteProfile_Submit ==
    /\ prog = "delete" /\ pc = "submit"
    /\ \E r \in Responses :
         LET s == SubmitDeleteProfile(profile, r)
         IN /\ t' = s.t
            /\ err' = s.err
            /\ subReqs' = s.reqs
            /\ rest' = rest \o s.reqs
            /\ resp' = IF Len(s.reqs) > 0 THEN r ELSE NoResponse
            /\ srvTask' = TaskAfter(s.reqs, r)
            /\ entry' = EnterWait(s.t, rest \o s.reqs)
    /\ pc' = "wait"
    /\ UNCHANGED <<prog, profile, server, waitErr, result, currenttime, retries,
                   waitLog, onAppliance, exVars>>

\* lines 305-308, 315: err was overwritten by Wait's result.
DeleteProfile_Return ==
    /\ prog = "delete" /\ pc = "waited"
    /\ result' = waitErr
    /\ pc' = "done"
    /\ UNCHANGED <<prog, profile, server, t, err, waitErr, rest, resp, subReqs,
                   currenttime, retries, entry, waitLog, srvTask, onAppliance,
                   exVars>>

\* ------------------------------------------- direct callers of Submit*
Caller_SubmitNew ==
    /\ prog = "submitNew" /\ pc = "start"
    /\ \E p \in Profiles, r \in Responses :
         LET s == SubmitNewProfile(p, r)
         IN /\ profile' = p
            /\ t' = s.t
            /\ err' = s.err
            /\ subReqs' = s.reqs
            /\ rest' = rest \o s.reqs
            /\ resp' = r
            /\ srvTask' = TaskAfter(s.reqs, r)
    /\ pc' = "submitted"
    /\ UNCHANGED <<prog, server, waitErr, result, currenttime, retries, entry,
                   waitLog, onAppliance, exVars>>

Caller_SubmitDelete ==
    /\ prog = "submitDelete" /\ pc = "start"
    /\ \E p \in Profiles, r \in Responses :
         LET s == SubmitDeleteProfile(p, r)
         IN /\ profile' = p
            /\ t' = s.t
            /\ err' = s.err
            /\ subReqs' = s.reqs
            /\ rest' = rest \o s.reqs
            /\ resp' = IF Len(s.reqs) > 0 THEN r ELSE NoResponse
            /\ srvTask' = TaskAfter(s.reqs, r)
    /\ pc' = "submitted"
    /\ UNCHANGED <<prog, server, waitErr, result, currenttime, retries, entry,
                   waitLog, onAppliance, exVars>>

\* The caller waits on the handle it holds, any number of times.
Caller_Wait ==
    /\ prog \in {"submitNew", "submitDelete"}
    /\ pc \in {"submitted", "waited"}
    /\ Len(waitLog) < MaxWaits
    /\ entry' = EnterWait(t, rest)
    /\ pc' = "wait"
    /\ UNCHANGED <<prog, profile, server, t, err, waitErr, result, rest, resp,
                   subReqs, currenttime, retries, waitLog, srvTask, onAppliance,
                   exVars>>

\* ------------------------------------------------------------- Task.Wait
PollReq(h) == [m |-> "GET", uri |-> h.URI]

\* The result a finished handle stands for.
TaskResult(h) == IF h.TaskState = "Error" THEN "ErrTask" ELSE "nil"

LogEntry(e, reqs, res) ==
    [done |-> e.done, polls |-> Len(reqs) - e.nreq, res |-> res]

\* The handle is done: Wait returns without polling.
Wait_Return ==
    /\ pc = "wait"
    /\ t.TaskIsDone
    /\ waitErr' = TaskResult(t)
    /\ waitLog' = Append(waitLog, LogEntry(entry, rest, TaskResult(t)))
    /\ currenttime' = 0
    /\ retries' = 0
    /\ pc' = "waited"
    /\ UNCHANGED <<prog, profile, server, t, err, result, rest, resp, subReqs,
                   entry, srvTask, onAppliance, exVars>>

\* One poll of the task's status.  A polling error is retried up to
\* MaxRetries times and then surfaces as a fatal task failure.
Wait_Poll ==
    /\ pc = "wait"
    /\ ~t.TaskIsDone
    /\ currenttime < Timeout
    /\ rest' = Append(rest, PollReq(t))
    /\ currenttime' = currenttime + 1
    /\ \E ok \in BOOLEAN :
         IF ok
         THEN /\ t' = [t EXCEPT !.TaskState = srvTask,
                                !.TaskIsDone = srvTask \in {"Completed", "Error"}]
              /\ retries' = retries
         ELSE IF retries < MaxRetries
         THEN t' = t /\ retries' = retries + 1
         ELSE /\ t' = [t EXCEPT !.TaskState = "Error", !.TaskIsDone = TRUE]
              /\ retries' = retries
    /\ UNCHANGED <<prog, pc, profile, server, err, waitErr, result, resp, subReqs,
                   entry, waitLog, srvTask, onAppliance, exVars>>

\* The task did not finish in time: Wait reports a failure.
Wait_Timeout ==
    /\ pc = "wait"
    /\ ~t.TaskIsDone
    /\ currenttime >= Timeout
    /\ waitErr' = "ErrTimeout"
    /\ waitLog' = Append(waitLog, LogEntry(entry, rest, "ErrTimeout"))
    /\ currenttime' = 0
    /\ retries' = 0
    /\ pc' = "waited"
    /\ UNCHANGED <<prog, profile, server, t, err, result, rest, resp, subReqs,
                   entry, srvTask, onAppliance, exVars>>

\* ------------------------------------------------------------ appliance
\* The appliance finishes the task it started; a completed delete removes
\* the profile, a completed create adds it.
Appliance_Progress ==
    /\ srvTask = "Running"
    /\ \E s \in {"Completed", "Error"} :
         /\ srvTask' = s
         /\ onAppliance' = IF s = "Completed"
                           THEN prog \in {"create", "submitNew"}
                           ELSE onAppliance
    /\ UNCHANGED <<prog, pc, profile, server, t, err, waitErr, result, rest, resp,
                   subReqs, currenttime, retries, entry, waitLog, exVars>>

\* ------------------------------------------------------ example programs
\* A program is the sequence of its SDK calls and of the tests of their
\* errors.  Call: v (:)= ovc.name(...) at the given line.  If: the test of v
\* at that line; on an error it prints, panics or does nothing (onErr) and
\* then skips the skip statements of its else branch.  Index: a use of
\* Members[0] of the list returned by the call at line `of`.
Call(name, line, v) == [op |-> "call", name |-> name, line |-> line, v |-> v]
If(v, line, onErr, skip) ==
    [op |-> "if", v |-> v, line |-> line, onErr |-> onErr, skip |-> skip]
Index(line, of) == [op |-> "index", line |-> line, of |-> of]

ApplianceSshAccessProgram ==
    << Call("GetSshAccess", 24, "err"), If("err", 25, "panic", 0),
       Call("SetSshAccess", 36, "err"), If("err", 37, "print", 0) >>

ScopeProgram ==
    << Call("GetScopeByName", 27, "scperr"), If("scperr", 28, "print", 0),
       Call("GetScopes", 34, "err"), If("err", 35, "print", 0),
       Call("CreateScope", 46, "er"), If("er", 47, "print", 0),
       Call("GetScopeByName", 53, "err"), If("err", 54, "print", 2),
       Call("UpdateScope", 58, "err"), If("err", 60, "panic", 0),
       Call("GetScopes", 67, "err"),
       Call("DeleteScope", 72, "err"), If("err", 73, "panic", 0),
       Call("GetScopes", 78, "err"), If("err", 79, "print", 0) >>

\* fc_config.go with the failure of UpdateFcNetwork printed, not fatal.
FcConfigProgram_UpdatePrinted ==
    << Call("LoadConfigFile", 18, "err1"), If("err1", 19, "print", 0),
       Call("CreateFCNetwork", 51, "err"), If("err", 52, "print", 0),
       Call("GetFCNetworks", 59, "err"), If("err", 60, "panic", 0),
       Call("GetFCNetworkByName", 68, "err"), If("err", 69, "print", 0),
       Call("UpdateFcNetwork", 76, "err"), If("err", 77, "print", 0),
       Call("DeleteFCNetwork", 82, "err"), If("err", 83, "panic", 0) >>

FcConfigProgram ==
    << Call("LoadConfigFile", 18, "err1"), If("err1", 19, "print", 0),
       Call("CreateFCNetwork", 51, "err"), If("err", 52, "print", 0),
       Call("GetFCNetworks", 59, "err"), If("err", 60, "panic", 0),
       Call("GetFCNetworkByName", 68, "err"), If("err", 69, "print", 0),
       Call("UpdateFcNetwork", 76, "err"), If("err", 77, "panic", 0),
       Call("DeleteFCNetwork", 82, "err"), If("err", 83, "panic", 0) >>

ScopeEthernetProgram ==
    << Call("CreateScope", 33, "er_test"),
       Call("CreateScope", 34, "er_test"), If("er_test", 35, "print", 0),
       Call("GetScopeByName", 40, "scperr"), If("scperr", 41, "print", 0),
       Call("GetScopes", 47, "err"), If("err", 48, "print", 0),
       Call("GetEthernetNetworkByName", 55, "err"), If("err", 56, "print", 0),
       Call("CreateScope", 64, "er"), If("er", 65, "print", 0),
       Call("GetScopeByName", 71, "err"), If("err", 72, "print", 2),
       Call("UpdateScope", 76, "err"), If("err", 78, "panic", 0),
       Call("GetScopes", 85, "err"),
       Call("GetScopes", 90, "err"), If("err", 91, "print", 0),
       Call("GetScopeFromResource", 99, "err"), If("err", 100, "ignore", 0),
       Index(105, 85),
       Call("GetScopeByUri", 105, "err"), If("err", 106, "ignore", 0),
       Call("UpdateScopeForResource", 112, "err"), If("err", 113, "print", 0),
       Call("DeleteScope", 119, "err"), If("err", 120, "panic", 0) >>

Program(pr) ==
    CASE pr = "appliance_ssh_access" -> ApplianceSshAccessProgram
      [] pr = "scope" -> ScopeProgram
      [] pr = "fc_config" -> FcConfigProgram
      [] pr = "scope_ethernet" -> ScopeEthernetProgram
      [] OTHER -> <<>>

Running == prog \in ExamplePrograms /\ pc = "run" /\ ip <= Len(Program(prog))
Stmt == Program(prog)[ip]

\* Errors held by a variable that nothing has looked at.
Unseen(gv) == {gv[v].from : v \in {w \in GoVarNames : gv[w].val = "err" /\ ~gv[w].seen}}

FailedCalls == {issued[i].line : i \in {j \in 1..Len(issued) : issued[j].st = "err"}}

\* The program calls the SDK.
Example_Issue ==
    /\ Running /\ Stmt.op = "call"
    /\ issued' = Append(issued, [name |-> Stmt.name, line |-> Stmt.line, st |-> "pending"])
    /\ pc' = "inflight"
    /\ UNCHANGED <<prog, libVars, ip, goVars, printed, dropped>>

\* The call returns and its error is assigned to the statement's variable;
\* an error the variable still held unexamined is lost.
Example_Return ==
    /\ prog \in ExamplePrograms /\ pc = "inflight"
    /\ \E e \in {"nil", "err"} :
         /\ issued' = [issued EXCEPT ![Len(issued)].st = IF e = "nil" THEN "ok" ELSE "err"]
         /\ goVars' = [goVars EXCEPT ![Stmt.v] =
                          [val |-> e, from |-> Stmt.line, seen |-> FALSE]]
    /\ dropped' = dropped \cup (Unseen(goVars) \cap {goVars[Stmt.v].from})
    /\ ip' = ip + 1
    /\ pc' = "run"
    /\ UNCHANGED <<prog, libVars, printed>>

\* if v != nil { print | panic } else { ... }   and   if v == nil { ... }
Example_Check ==
    /\ Running /\ Stmt.op = "if"
    /\ LET x == goVars[Stmt.v]
           gv == [goVars EXCEPT ![Stmt.v].seen = TRUE]
       IN /\ goVars' = gv
          /\ IF x.val = "nil"
             THEN /\ ip' = ip + 1
                  /\ UNCHANGED <<pc, printed, dropped>>
             ELSE CASE Stmt.onErr = "print" ->
                         /\ printed' = printed \cup {x.from}
                         /\ ip' = ip + 1 + Stmt.skip
                         /\ UNCHANGED <<pc, dropped>>
                    [] Stmt.onErr = "panic" ->
                         /\ pc' = "panicked"
                         /\ dropped' = dropped \cup Unseen(gv)
                         /\ UNCHANGED <<ip, printed>>
                    [] OTHER ->
                         /\ dropped' = dropped \cup {x.from}
                         /\ ip' = ip + 1
                         /\ UNCHANGED <<pc, printed>>
    /\ UNCHANGED <<prog, libVars, issued>>

\* Members[0] of a list: when the call that returned the list failed, the
\* list may be empty and the index then ends the process.
Example_Index ==
    /\ Running /\ Stmt.op = "index"
    /\ \E empty \in {FALSE, Stmt.of \in FailedCalls} :
         IF empty
         THEN /\ pc' = "crashed"
              /\ dropped' = dropped \cup Unseen(goVars)
              /\ ip' = ip
         ELSE /\ ip' = ip + 1
              /\ UNCHANGED <<pc, dropped>>
    /\ UNCHANGED <<prog, libVars, goVars, printed, issued>>

\* main returns.
Example_Exit ==
    /\ prog \in ExamplePrograms /\ pc = "run" /\ ip > Len(Program(prog))
    /\ pc' = "exited"
    /\ dropped' = dropped \cup Unseen(goVars)
    /\ UNCHANGED <<prog, libVars, ip, goVars, printed, issued>>

Next ==
    \/ CreateProfileFromTemplate_Submit
    \/ CreateProfileFromTemplate_Return
    \/ DeleteProfile_Lookup
    \/ DeleteProfile_GetServerHardware
    \/ DeleteProfile_PowerOff
    \/ DeleteProfile_Submit
    \/ DeleteProfile_Return
    \/ Caller_SubmitNew
    \/ Caller_SubmitDelete
    \/ Caller_Wait
    \/ Wait_Return
    \/ Wait_Poll
    \/ Wait_Timeout
    \/ Appliance_Progress
    \/ Example_Issue
    \/ Example_Return
    \/ Example_Check
    \/ Example_Index
    \/ Example_Exit

Spec == Init /\ [][Next]_vars

\* ================================================================ claims
Returned == prog \in {"create", "delete"} /\ pc = "done"
\* Submit* has returned to the entry point or caller in hand.
Submitted ==
    /\ prog \in LibraryPrograms
    /\ \/ pc \in {"submitted", "wait", "waited"}
       \/ pc = "done" /\ waitLog # <<>>
IsSubmission(q) == q.m \in {"POST", "DELETE"}
Positions(m) == {i \in 1..Len(rest) : rest[i].m = m}

\* C1: when the submission request of CreateProfileFromTemplate or
\* DeleteProfile failed in RestAPICall, the entry point returns that error
\* (and so never nil).
C1_SubmissionErrorReturned ==
    (Returned /\ subReqs # <<>> /\ resp.err # "nil") => result = resp.err

\* C2: one Submit* call issues at most one request, and when RestAPICall
\* failed it returns RestAPICall's error with the handle, with no second
\* request.
C2_SingleRequestNoRetry ==
    Submitted =>
        /\ Len(subReqs) <= 1
        /\ Cardinality({i \in 1..Len(rest) : IsSubmission(rest[i])}) <= 1
        /\ (subReqs # <<>> /\ resp.err # "nil" => err = resp.err)

C2_Witness ==
    /\ prog = "submitNew" /\ pc = "submitted"
    /\ resp.err = "ErrRest" /\ err = "ErrRest" /\ subReqs = <<Post>>

\* C3: CreateProfileFromTemplate, and DeleteProfile for a profile it found,
\* return nil only after Wait was called on the submitted handle and has
\* returned without error with the handle done, and never while the task is
\* still running on the appliance.
C3_NilOnlyAfterTerminalWait ==
    (Returned /\ result = "nil" /\ (prog = "delete" => profile.Name # "")) =>
        /\ waitLog # <<>>
        /\ waitErr = "nil"
        /\ t.TaskIsDone
        /\ srvTask # "Running"

\* C4: Submit* returns right after its one request: it has polled nothing,
\* and on a successful submission the handle it returns is the fresh handle
\* filled in from the appliance's answer, not yet done.
C4_SubmitReturnsImmediately ==
    (prog \in {"submitNew", "submitDelete"} /\ pc = "submitted") =>
        /\ \A i \in 1..Len(rest) : rest[i].m # "GET"
        /\ \A i \in 1..Len(subReqs) : IsSubmission(subReqs[i])
        /\ (subReqs # <<>> /\ err = "nil" =>
               /\ t.URI = resp.uri
               /\ t.URI \in TaskURIs
               /\ ~t.TaskIsDone)

C4_Witness ==
    /\ prog = "submitDelete" /\ pc = "submitted"
    /\ err = "nil" /\ t.URI = "/rest/tasks/2" /\ srvTask = "Running"

C6_NoErrorDropped ==
    prog \in ExamplePrograms => dropped = {}

\* C7: fc_config.go issues CreateFCNetwork, GetFCNetworks,
\* GetFCNetworkByName, UpdateFcNetwork, DeleteFCNetwork in this order, each
\* after the previous call returned; a failed GetFCNetworks, UpdateFcNetwork
\* or DeleteFCNetwork is the last call of the run, which ends in a panic; a
\* failed CreateFCNetwork or GetFCNetworkByName is printed and the run goes
\* on; DeleteFCNetwork is issued only after UpdateFcNetwork succeeded.
FcOrder == <<"CreateFCNetwork", "GetFCNetworks", "GetFCNetworkByName",
             "UpdateFcNetwork", "DeleteFCNetwork">>
FcFatal == {"GetFCNetworks", "UpdateFcNetwork", "DeleteFCNetwork"}
FcOps == SelectSeq(issued, LAMBDA c : c.name # "LoadConfigFile")

C7_FcConfigSequence ==
    prog = "fc_config" =>
        /\ Len(FcOps) <= Len(FcOrder)
        /\ \A i \in 1..Len(FcOps) : FcOps[i].name = FcOrder[i]
        /\ \A i \in 1..Len(issued) : i < Len(issued) => issued[i].st # "pending"
        /\ \A i \in 1..Len(FcOps) :
             /\ (FcOps[i].name \in FcFatal /\ FcOps[i].st = "err") =>
                    /\ i = Len(FcOps)
                    /\ pc \in {"run", "panicked"}
             /\ (FcOps[i].name \notin FcFatal /\ FcOps[i].st = "err"
                   /\ (i < Len(FcOps) \/ pc \in {"exited", "panicked"})) =>
                    FcOps[i].line \in printed
             /\ (FcOps[i].name = "DeleteFCNetwork") => FcOps[i - 1].st = "ok"
        /\ (pc = "panicked" =>
               /\ FcOps # <<>>
               /\ FcOps[Len(FcOps)].name \in FcFatal
               /\ FcOps[Len(FcOps)].st = "err")
        /\ (pc = "exited" =>
               /\ Len(FcOps) = Len(FcOrder)
               /\ \A i \in 1..Len(FcOps) :
                    FcOps[i].name \in FcFatal => FcOps[i].st = "ok")

C7_Witness ==
    /\ prog = "fc_config" /\ pc = "exited"
    /\ printed = {51, 68}
    /\ Len(FcOps) = 5

C9_NothingWithoutProfile ==
    prog = "delete" =>
        /\ (pc = "done" /\ waitLog = <<>>) =>
              /\ rest = <<GetProfilesReq>>
              /\ \/ err # "nil" /\ result = err
                 \/ err = "nil" /\ profile.Name = "" /\ result = "nil"
        /\ (pc \in {"hw", "power", "submit"}) => (err = "nil" /\ profile.Name # "")
        /\ (Len(rest) > 1) => profile.Name # ""

C9_Witness ==
    /\ prog = "delete" /\ pc = "done" /\ onAppliance
    /\ err = "ErrRest" /\ result = "ErrRest" /\ rest = <<GetProfilesReq>>

\* C10: for a found profile with an empty URI SubmitDeleteProfile issues no
\* request, marks the handle done and returns no error, and DeleteProfile
\* returns nil only if the profile is gone from the appliance.
C10_NilOnlyIfDeleted ==
    (prog = "delete" /\ pc = "done" /\ waitLog # <<>> /\ profile.URI = "") =>
        /\ subReqs = <<>> /\ t.TaskIsDone /\ err = "nil"
        /\ (result = "nil" => ~onAppliance)
====
